---- MODULE Spec2Model ----
(***************************************************************************)
(* Model of src/event/fd.rs: FileDesc, the handle around the file          *)
(* descriptor returned by perf_event_open(), its ioctl() control           *)
(* operations and its read().                                              *)
(*                                                                         *)
(* The kernel side (sys::perf_event_open, libc::ioctl, read_wrap) is the   *)
(* environment: each call's return value, and what the ID ioctl writes     *)
(* through its pointer argument, are chosen nondeterministically.  The     *)
(* three call layers are observed through the logs and counters below, as  *)
(* a recording test double would observe them.                             *)
(***************************************************************************)
EXTENDS Integers, Sequences, FiniteSets, TLC

\* Number of operations invoked on one handle.
MaxOps == 3
\* Largest usize argument passed to refresh() and overflow_period().
MaxCount == 2
\* Largest file descriptor the open call hands out (the smallest is 3).
MaxFd == 4
\* Largest event id the ID ioctl writes, and largest counter value read.
MaxVal == 2

\* Return values of libc::ioctl: -1 is the failure sentinel; -2 and the
\* non-negative values stand for every other c_int.
IoctlRets == {-2, -1, 0, 1}
\* Return values of read_wrap (isize).
ReadRets == (-2)..MaxVal
\* Return values of sys::perf_event_open: -1 or a new descriptor.  They are
\* within the range of i32, where the `as i32` of line 23 keeps the value.
OpenRets == {-1} \cup (3..MaxFd)
Pids == {0, 1}
Cpus == {-1, 0}
GroupFds == {-1, 3}
Counts == 0..MaxCount
\* What the ID ioctl leaves in *arg: <<>> when it writes nothing, <<v>>
\* when it writes v.
IdWrites == {<<>>} \cup {<<v>> : v \in 0..MaxVal}

VARIABLES
    phase,    \* "start" | "live" | "dropped" | "panicked"
    self,     \* the FileDesc tuple struct: <<fd>>, or <<>> before construction
    ctor,     \* the arguments of FileDesc::new and the open call's answer
    opens,    \* the open calls seen by the open layer
    nIoctl,   \* number of control calls seen by the control layer
    nRead,    \* number of read calls seen by the read layer
    closes,   \* number of close calls on the descriptor
    nops,     \* number of operations invoked on the handle
    nfail,    \* number of operations that returned Err to the caller
    last      \* the last operation: inputs, calls issued, result

vars == <<phase, self, ctor, opens, nIoctl, nRead, closes, nops, nfail, last>>

----------------------------------------------------------------------------
\* Result<T, SysErr> values, and the unwinding of a panic.
Ok(v) == [kind |-> "Ok", err |-> "", val |-> v]
Err(e) == [kind |-> "Err", err |-> e, val |-> 0]
Panic == [kind |-> "Panic", err |-> "", val |-> 0]
NoRes == [kind |-> "None", err |-> "", val |-> 0]

\* The third argument of ioctl(): an integer, or a pointer to a local
\* holding val when the call is made.
IntArg(v) == [tag |-> "int", val |-> v]
PtrArg(v) == [tag |-> "ptr", val |-> v]
NoArg == [tag |-> "none", val |-> 0]

IoctlCall(fd, code, arg) == [layer |-> "ioctl", fd |-> fd, code |-> code, arg |-> arg]
ReadCall(fd) == [layer |-> "read", fd |-> fd, code |-> "", arg |-> NoArg]

----------------------------------------------------------------------------
\* mutant of new: the ret == -1 test is missing
new_nocheck(pid, cpu, group_fd, kret) ==
    [open |-> [pid |-> pid, cpu |-> cpu, group_fd |-> group_fd, flags |-> 0],
     res |-> Ok(kret)]

\* FileDesc::new: one perf_event_open with flags 0; panics on -1.
new(pid, cpu, group_fd, kret) ==
    [open |-> [pid |-> pid, cpu |-> cpu, group_fd |-> group_fd, flags |-> 0],
     res |-> IF kret = -1 THEN Panic ELSE Ok(kret)]

\* mutant of enable: tests the sign instead of the sentinel
enable_signtest(s, kret) ==
    [calls |-> <<IoctlCall(s[1], "ENABLE", IntArg(0))>>,
     res |-> IF kret < 0 THEN Err("IoFail") ELSE Ok(0)]

enable(s, kret) ==
    [calls |-> <<IoctlCall(s[1], "ENABLE", IntArg(0))>>,
     res |-> IF kret = -1 THEN Err("IoFail") ELSE Ok(0)]

\* mutant of disable: issues the call on a descriptor other than self.0
disable_wrongfd(s, kret) ==
    [calls |-> <<IoctlCall(0, "DISABLE", IntArg(0))>>,
     res |-> IF kret = -1 THEN Err("IoFail") ELSE Ok(0)]

disable(s, kret) ==
    [calls |-> <<IoctlCall(s[1], "DISABLE", IntArg(0))>>,
     res |-> IF kret = -1 THEN Err("IoFail") ELSE Ok(0)]

\* mutant of refresh: the count == 0 guard is missing
refresh_noguard(s, count, kret) ==
    [calls |-> <<IoctlCall(s[1], "REFRESH", PtrArg(count))>>,
     res |-> IF kret = -1 THEN Err("IoFail") ELSE Ok(0)]

\* refresh: count == 0 is rejected before the call; otherwise the ioctl is
\* passed `arg`, the address of the local `count` (lines 65-67).
refresh(s, count, kret) ==
    IF count = 0
    THEN [calls |-> <<>>, res |-> Err("IoArg")]
    ELSE [calls |-> <<IoctlCall(s[1], "REFRESH", PtrArg(count))>>,
          res |-> IF kret = -1 THEN Err("IoFail") ELSE Ok(0)]

reset(s, kret) ==
    [calls |-> <<IoctlCall(s[1], "RESET", IntArg(0))>>,
     res |-> IF kret = -1 THEN Err("IoFail") ELSE Ok(0)]

overflow_period(s, interval, kret) ==
    [calls |-> <<IoctlCall(s[1], "PERIOD", PtrArg(interval))>>,
     res |-> IF kret = -1 THEN Err("IoFail") ELSE Ok(0)]

set_output(s) == [calls |-> <<>>, res |-> Panic]

ignore_output(s) == [calls |-> <<>>, res |-> Panic]

\* mutant of id: the ret == 0 test is missing
id_nozerotest(s, kret, kout) ==
    LET ret == IF kout = <<>> THEN 0 ELSE kout[1]
    IN  [calls |-> <<IoctlCall(s[1], "ID", PtrArg(0))>>,
         res |-> IF kret = -1 THEN Err("IoFail") ELSE Ok(ret)]

\* id: `ret` starts as 0 and the ioctl is passed its address; kout is what
\* the call wrote there.
id(s, kret, kout) ==
    LET ret == IF kout = <<>> THEN 0 ELSE kout[1]
    IN  [calls |-> <<IoctlCall(s[1], "ID", PtrArg(0))>>,
         res |-> IF kret = -1 THEN Err("IoFail")
                 ELSE IF ret = 0 THEN Err("IoId")
                 ELSE Ok(ret)]

pause_output(s) == [calls |-> <<>>, res |-> Panic]

resume_output(s) == [calls |-> <<>>, res |-> Panic]

modify_attributes(s) == [calls |-> <<>>, res |-> Panic]

\* mutant of read: every negative value is taken for the failure
read_signtest(s, kret) ==
    [calls |-> <<ReadCall(s[1])>>,
     res |-> IF kret < 0 THEN Err("ReadFail") ELSE Ok(kret)]

read(s, kret) ==
    [calls |-> <<ReadCall(s[1])>>,
     res |-> IF kret = -1 THEN Err("ReadFail") ELSE Ok(kret)]

\* The close calls issued when a FileDesc value is dropped.  FileDesc is a
\* tuple struct around an i32 and has no Drop implementation, so dropping it
\* runs no code.
drop(s) == <<>>

----------------------------------------------------------------------------
NoCtor == [pid |-> 0, cpu |-> 0, group_fd |-> 0, kret |-> 0]
NoLast == [op |-> "none", arg |-> 0, kret |-> 0, kout |-> <<>>,
           calls |-> <<>>, res |-> NoRes]

Init ==
    /\ phase = "start"
    /\ self = <<>>
    /\ ctor = NoCtor
    /\ opens = <<>>
    /\ nIoctl = 0
    /\ nRead = 0
    /\ closes = 0
    /\ nops = 0
    /\ nfail = 0
    /\ last = NoLast

CountLayer(calls, layer) == Cardinality({i \in 1..Len(calls) : calls[i].layer = layer})

\* One operation on the live handle: its calls reach the layers, its result
\* goes to the caller.  A panic unwinds the thread.  No operation takes
\* &mut self: the handle is left as it is.
Invoke(op, arg, kret, kout, out) ==
    /\ nops < MaxOps
    /\ nops' = nops + 1
    /\ nfail' = IF out.res.kind = "Err" THEN nfail + 1 ELSE nfail
    /\ nIoctl' = nIoctl + CountLayer(out.calls, "ioctl")
    /\ nRead' = nRead + CountLayer(out.calls, "read")
    /\ last' = [op |-> op, arg |-> arg, kret |-> kret, kout |-> kout,
                calls |-> out.calls, res |-> out.res]
    /\ phase' = IF out.res.kind = "Panic" THEN "panicked" ELSE "live"
    /\ closes' = IF out.res.kind = "Panic" THEN closes + Len(drop(self)) ELSE closes
    /\ UNCHANGED <<self, ctor, opens>>

New ==
    /\ phase = "start"
    /\ \E pid \in Pids, cpu \in Cpus, group_fd \in GroupFds, kret \in OpenRets :
         LET out == new(pid, cpu, group_fd, kret)
         IN  /\ ctor' = [pid |-> pid, cpu |-> cpu, group_fd |-> group_fd, kret |-> kret]
             /\ opens' = Append(opens, out.open)
             /\ self' = IF out.res.kind = "Ok" THEN <<out.res.val>> ELSE <<>>
             /\ phase' = IF out.res.kind = "Ok" THEN "live" ELSE "panicked"
             /\ last' = [NoLast EXCEPT !.op = "new", !.kret = kret, !.res = out.res]
    /\ UNCHANGED <<nIoctl, nRead, closes, nops, nfail>>

Enable ==
    /\ phase = "live"
    /\ \E r \in IoctlRets : Invoke("enable", 0, r, <<>>, enable(self, r))

Disable ==
    /\ phase = "live"
    /\ \E r \in IoctlRets : Invoke("disable", 0, r, <<>>, disable(self, r))

Refresh ==
    /\ phase = "live"
    /\ \E count \in Counts :
       \E r \in (IF count = 0 THEN {0} ELSE IoctlRets) :
       Invoke("refresh", count, r, <<>>, refresh(self, count, r))

Reset ==
    /\ phase = "live"
    /\ \E r \in IoctlRets : Invoke("reset", 0, r, <<>>, reset(self, r))

OverflowPeriod ==
    /\ phase = "live"
    /\ \E interval \in Counts, r \in IoctlRets :
       Invoke("overflow_period", interval, r, <<>>, overflow_period(self, interval, r))

SetOutput ==
    /\ phase = "live"
    /\ Invoke("set_output", 0, 0, <<>>, set_output(self))

IgnoreOutput ==
    /\ phase = "live"
    /\ Invoke("ignore_output", 0, 0, <<>>, ignore_output(self))

Id ==
    /\ phase = "live"
    /\ \E r \in IoctlRets, w \in IdWrites : Invoke("id", 0, r, w, id(self, r, w))

PauseOutput ==
    /\ phase = "live"
    /\ Invoke("pause_output", 0, 0, <<>>, pause_output(self))

ResumeOutput ==
    /\ phase = "live"
    /\ Invoke("resume_output", 0, 0, <<>>, resume_output(self))

ModifyAttributes ==
    /\ phase = "live"
    /\ Invoke("modify_attributes", 0, 0, <<>>, modify_attributes(self))

Read ==
    /\ phase = "live"
    /\ \E r \in ReadRets : Invoke("read", 0, r, <<>>, read(self, r))

\* The owner of the handle goes out of scope.
Drop ==
    /\ phase = "live"
    /\ phase' = "dropped"
    /\ closes' = closes + Len(drop(self))
    /\ UNCHANGED <<self, ctor, opens, nIoctl, nRead, nops, nfail, last>>

Next ==
    \/ New
    \/ Enable
    \/ Disable
    \/ Refresh
    \/ Reset
    \/ OverflowPeriod
    \/ SetOutput
    \/ IgnoreOutput
    \/ Id
    \/ PauseOutput
    \/ ResumeOutput
    \/ ModifyAttributes
    \/ Read
    \/ Drop

Spec == Init /\ [][Next]_vars

----------------------------------------------------------------------------
\* The step that is one invocation of operation op on the handle.
Invoked(op) == nops' = nops + 1 /\ last'.op = op

\* The value of `ret` in id() after the ID ioctl returned.
IdRet == IF last.kout = <<>> THEN 0 ELSE last.kout[1]

\* C1: when the handle's owner goes out of scope, the descriptor has been
\* closed exactly once, whatever operations were performed before.
C1_ReleasedExactlyOnce == phase = "dropped" => closes = 1

\* C2: FileDesc::new issues exactly one open call, with flags 0 and with
\* pid, cpu and group_fd as given; when that call returns -1 construction
\* fails and no handle exists; otherwise the handle holds the descriptor the
\* call returned.
C2_NewContract ==
    /\ phase = "start" => (opens = <<>> /\ self = <<>>)
    /\ phase # "start" =>
          /\ opens = <<[pid |-> ctor.pid, cpu |-> ctor.cpu,
                        group_fd |-> ctor.group_fd, flags |-> 0]>>
          /\ ctor.kret = -1 =>
                (self = <<>> /\ phase = "panicked" /\ last.res = Panic /\ nops = 0)
          /\ ctor.kret # -1 => self = <<ctor.kret>>

C2_Witness ==
    phase = "panicked" /\ ctor.kret = -1 /\ ctor.group_fd = 3 /\ Len(opens) = 1

\* C3: refresh(0) returns Err(IoArg) and issues no control call: the number
\* of calls seen by the control layer is the same before and after.
C3_RefreshZero ==
    [][(Invoked("refresh") /\ last'.arg = 0) =>
          /\ last'.res = Err("IoArg")
          /\ last'.calls = <<>>
          /\ nIoctl' = nIoctl
          /\ nRead' = nRead]_vars

C3_Witness ==
    /\ last.op = "refresh" /\ last.arg = 0 /\ last.res = Err("IoArg")
    /\ nops = MaxOps /\ nIoctl = MaxOps - 1

\* C4: refresh(n) with n >= 1 issues exactly one control call, with the
\* REFRESH code and the value n as its argument, and returns Ok iff the call
\* does not return -1, Err(IoFail) otherwise.
C4_RefreshPositive ==
    (last.op = "refresh" /\ last.arg >= 1) =>
        /\ last.calls = <<IoctlCall(self[1], "REFRESH", IntArg(last.arg))>>
        /\ (last.res = Ok(0) <=> last.kret # -1)
        /\ (last.res = Err("IoFail") <=> last.kret = -1)

\* C5: id() returns Err(IoId) iff the ID call does not fail and leaves the
\* identifier 0, Err(IoFail) iff the call returns -1, and in every other
\* case Ok of the nonzero identifier the call wrote; exactly one of the
\* three happens.
C5_IdOutcomes ==
    last.op = "id" =>
        /\ last.calls = <<IoctlCall(self[1], "ID", PtrArg(0))>>
        /\ (last.res = Err("IoId") <=> (last.kret # -1 /\ IdRet = 0))
        /\ (last.res = Err("IoFail") <=> last.kret = -1)
        /\ (last.res = Ok(IdRet) <=> (last.kret # -1 /\ IdRet # 0))
        /\ Cardinality({k \in {"IoId", "IoFail", "Ok"} :
                           \/ (k = "Ok" /\ last.res.kind = "Ok")
                           \/ (k # "Ok" /\ last.res = Err(k))}) = 1

C5_Witness ==
    last.op = "id" /\ last.kret = 1 /\ last.kout = <<0>> /\ last.res = Err("IoId")

\* C6: every operation other than construction returns Ok or a typed Err to
\* its caller and never panics; the five output/attribute operations issue
\* one control call like the others.
OutputOps ==
    {"set_output", "ignore_output", "pause_output", "resume_output", "modify_attributes"}

C6_AllOpsReturn ==
    (last.op \notin {"none", "new"}) =>
        /\ last.res.kind \in {"Ok", "Err"}
        /\ last.op \in OutputOps => Len(last.calls) = 1

\* C7: read() issues exactly one call to the read layer, on self.0, and
\* returns Err(ReadFail) iff that call returns -1; every other value v,
\* 0 and the other negative values included, comes back as Ok(v).
C7_Read ==
    [][Invoked("read") =>
          /\ last'.calls = <<ReadCall(self[1])>>
          /\ nRead' = nRead + 1
          /\ nIoctl' = nIoctl
          /\ (last'.res = Err("ReadFail") <=> last'.kret = -1)
          /\ (last'.kret # -1 => last'.res = Ok(last'.kret))]_vars

C7_Witness == last.op = "read" /\ last.kret = -2 /\ last.res = Ok(-2) /\ nRead = 2

\* C8: enable, disable, reset and overflow_period each issue exactly one
\* control call per invocation, each with its own code, whatever the
\* argument, and return Err(IoFail) iff that call returns -1, Ok otherwise.
SimpleOps == {"enable", "disable", "reset", "overflow_period"}

C8_Code(op) ==
    CASE op = "enable" -> "ENABLE"
      [] op = "disable" -> "DISABLE"
      [] op = "reset" -> "RESET"
      [] op = "overflow_period" -> "PERIOD"

C8_SimpleControlOps ==
    [][\A op \in SimpleOps :
          Invoked(op) =>
             /\ Len(last'.calls) = 1
             /\ last'.calls[1].layer = "ioctl"
             /\ last'.calls[1].code = C8_Code(op)
             /\ \A other \in SimpleOps \ {op} : last'.calls[1].code # C8_Code(other)
             /\ nIoctl' = nIoctl + 1
             /\ nRead' = nRead
             /\ (last'.res = Err("IoFail") <=> last'.kret = -1)
             /\ (last'.res = Ok(0) <=> last'.kret # -1)]_vars

C8_Witness ==
    /\ last.op = "overflow_period" /\ last.arg = 0
    /\ last.kret = -2 /\ last.res = Ok(0) /\ nIoctl = MaxOps

\* C10: the descriptor held by the handle is the one the open call returned
\* and never changes; every control or read call is issued on it; and after
\* an operation that returned Err the handle is still there for the next one.
C10_Inv ==
    /\ self # <<>> => self = <<ctor.kret>>
    /\ \A i \in 1..Len(last.calls) : last.calls[i].fd = ctor.kret
    /\ (last.res.kind = "Err" /\ phase # "dropped") => phase = "live"
    /\ (last.res.kind = "Err" /\ phase = "live" /\ nops < MaxOps) =>
          (ENABLED Enable /\ ENABLED Id /\ ENABLED Read /\ ENABLED Refresh)

C10_ReferenceFixed == []C10_Inv /\ [][self # <<>> => self' = self]_vars

C10_Witness ==
    /\ nfail = MaxOps - 1 /\ nops = MaxOps
    /\ last.res.kind = "Ok" /\ last.op = "disable" /\ last.calls[1].fd = self[1]

====
